---- MODULE Spec2Model ----
(***************************************************************************)
(* Model of photo_manipulation.py: the pixel transforms (adjust_brightness,*)
(* adjust_contrast, apply_blur, adjust_rgb_channels and the five colour    *)
(* effects) and the pipeline that main() runs on every script run.         *)
(*                                                                         *)
(* An image buffer is a sequence of rows, a row a sequence of pixels, a    *)
(* pixel a sequence of uint8 samples in the buffer's channel order         *)
(* (<<b, g, r>> for colour, <<y>> after apply_grayscale).  Buffers live in *)
(* a heap (a sequence of buffers, a reference is an index), so that a      *)
(* transform that returns its argument and one that allocates a new array  *)
(* are different things in the model as they are in NumPy.                 *)
(*                                                                         *)
(* The OpenCV calls are modelled by what they compute on uint8 data:       *)
(* saturating add/subtract, addWeighted with rounding and saturation,      *)
(* the 8-bit BGR<->HSV conversions, the fixed-point Gaussian blur with     *)
(* reflect-101 borders, and filter2D as a spatial correlation.  Float      *)
(* results are modelled as exact rationals rounded half to even.           *)
(***************************************************************************)
EXTENDS Integers, Sequences, FiniteSets, TLC

VARIABLES uploaded, heap, image, adjusted, params, pc, log, error

vars == <<uploaded, heap, image, adjusted, params, pc, log, error>>

(***************************************************************************)
(* Bounds of the model.                                                    *)
(***************************************************************************)
\* height and width of the multi-pixel test images
ImgH == 2
ImgW == 3
\* how far beyond the +/-100 sliders the direct-call harness draws arguments
SliderExt == 32
\* how far beyond the 0..30 blur slider the direct-call harness draws radii
BlurExt == 2
\* how many transforms the tone harness chains on one buffer
MaxCalls == 2

(***************************************************************************)
(* Arithmetic helpers.                                                     *)
(***************************************************************************)
Max(a, b) == IF a >= b THEN a ELSE b
Min(a, b) == IF a <= b THEN a ELSE b
Abs(a) == IF a < 0 THEN -a ELSE a

\* floor(n / d) for d > 0 and any integer n
FloorDiv(n, d) == IF n >= 0 THEN n \div d ELSE -((-n + d - 1) \div d)

\* cvRound of the rational n / d, d # 0: nearest integer, ties to even
RoundDiv(n, d) ==
    LET nn == IF d < 0 THEN -n ELSE n
        dd == Abs(d)
        q  == FloorDiv(nn, dd)
        r  == nn - q * dd
    IN  IF 2 * r < dd THEN q
        ELSE IF 2 * r > dd THEN q + 1
        ELSE IF q % 2 = 0 THEN q ELSE q + 1

\* saturate_cast<uchar>
Saturate(x) == IF x < 0 THEN 0 ELSE IF x > 255 THEN 255 ELSE x

\* a uint8 store of an integer result: the value modulo 2^8
Wrap8(x) == ((x % 256) + 256) % 256

\* cv2.add(plane, scalar) and cv2.subtract(plane, scalar) on one uint8 sample
cvAdd(x, k) == Saturate(x + k)
cvSubtract(x, k) == Saturate(x - k)

(***************************************************************************)
(* adjust_brightness, lines 9-27.                                          *)
(***************************************************************************)
\* cv2.cvtColor(COLOR_BGR2HSV) on one 8-bit pixel: v = max, s and h from the
\* integer division tables (hsv_shift = 12, hue range 180)
BGR2HSV(p) ==
    LET b == p[1]
        g == p[2]
        r == p[3]
        v == Max(b, Max(g, r))
        vmin == Min(b, Min(g, r))
        diff == v - vmin
        sdiv == IF v = 0 THEN 0 ELSE RoundDiv(255 * 4096, v)
        hdiv == IF diff = 0 THEN 0 ELSE RoundDiv(180 * 4096, 6 * diff)
        s == FloorDiv(diff * sdiv + 2048, 4096)
        h0 == IF v = r THEN g - b
              ELSE IF v = g THEN b - r + 2 * diff
              ELSE r - g + 4 * diff
        h1 == FloorDiv(h0 * hdiv + 2048, 4096)
        h == IF h1 < 0 THEN h1 + 180 ELSE h1
    IN  <<Saturate(h), Saturate(s), v>>

\* cv2.cvtColor(COLOR_HSV2BGR) on one 8-bit pixel: sector = floor(h / 30),
\* f = (h mod 30) / 30, tab = v, v(1-s), v(1-s f), v(1-s(1-f)), scaled to 0..255
HSV2BGR(q) ==
    LET h == q[1]
        s == q[2]
        v == q[3]
        hh == h % 180
        sector == hh \div 30
        f == hh % 30
        t0 == v
        t1 == Saturate(RoundDiv(v * (255 - s), 255))
        t2 == Saturate(RoundDiv(v * (7650 - s * f), 7650))
        t3 == Saturate(RoundDiv(v * (7650 - s * (30 - f)), 7650))
    IN  IF s = 0 THEN <<v, v, v>>
        ELSE CASE sector = 0 -> <<t1, t3, t0>>
               [] sector = 1 -> <<t1, t0, t2>>
               [] sector = 2 -> <<t3, t0, t1>>
               [] sector = 3 -> <<t0, t2, t1>>
               [] sector = 4 -> <<t0, t1, t3>>
               [] OTHER      -> <<t2, t1, t0>>

\* lines 15-23 on one sample of the uint8 plane v: two masked in-place
\* statements, the second reading what the first stored
\* variant: the uint8 += without the masks of lines 17 and 22
AdjustValueWrapped(v, brightness) == Wrap8(v + brightness)
\* variant: lim taken as brightness in both branches (line 16 written as line 21)
AdjustValueLimSlip(v, brightness) ==
    IF brightness > 0
    THEN IF v > brightness THEN 255 ELSE Wrap8(v + brightness)
    ELSE IF v < -brightness THEN 0 ELSE Wrap8(v + brightness)
AdjustValue(v, brightness) ==
    IF brightness > 0
    THEN LET lim == 255 - brightness
             v1 == IF v > lim THEN 255 ELSE v
         IN  IF v1 <= lim THEN Wrap8(v1 + brightness) ELSE v1
    ELSE LET m == -brightness
             lim == m
             v1 == IF v < lim THEN 0 ELSE v
         IN  IF v1 >= lim THEN Wrap8(v1 - m) ELSE v1

\* lines 12-26 on one pixel: to HSV, adjust v, merge, back to BGR
BrightnessPixel(p, brightness) ==
    LET hsv == BGR2HSV(p)
    IN  HSV2BGR(<<hsv[1], hsv[2], AdjustValue(hsv[3], brightness)>>)

\* the array line 26 returns
BrightnessBuffer(buf, brightness) ==
    [i \in DOMAIN buf |-> [j \in DOMAIN buf[i] |-> BrightnessPixel(buf[i][j], brightness)]]

(***************************************************************************)
(* adjust_contrast, lines 29-37.                                           *)
(***************************************************************************)
\* numerator and divisor of f = 131*(contrast+127) / (127*(131-contrast))
ContrastNum(contrast) == 131 * (contrast + 127)

\* variant: the divisor written with 127 for 131
ContrastDivisorAt127(contrast) == 127 * (127 - contrast)
ContrastDivisor(contrast) == 127 * (131 - contrast)

\* cv2.addWeighted(image, f, image, 0, 127*(1-f)) on one sample:
\* saturate(round(x*f + 127*(1-f))) with f = n/d
ContrastSample(x, contrast) ==
    LET n == ContrastNum(contrast)
        d == ContrastDivisor(contrast)
    IN  Saturate(RoundDiv(x * n + 127 * (d - n), d))

ContrastBuffer(buf, contrast) ==
    [i \in DOMAIN buf |-> [j \in DOMAIN buf[i] |->
        [c \in DOMAIN buf[i][j] |-> ContrastSample(buf[i][j][c], contrast)]]]

(***************************************************************************)
(* apply_blur, lines 39-44.                                                *)
(***************************************************************************)
\* variant: an even radius lowered to the odd side below it
KernelSizePromotedDown(blur) == IF blur % 2 = 1 THEN blur ELSE blur - 1
\* line 42: the kernel side cv2.GaussianBlur is given
KernelSize(blur) == IF blur % 2 = 1 THEN blur ELSE blur + 1

\* The first half (up to the centre) of the fixed-point Gaussian kernel
\* GaussianBlur derives for an odd side 1, 3, 5, ... with sigma 0: weights
\* in 1/256, sigma = 0.3*((side-1)*0.5 - 1) + 0.8, the small sides from
\* OpenCV's fixed table; each full kernel sums to 256.
GaussHalf ==
    << <<256>>,
       <<64, 128>>,
       <<16, 64, 96>>,
       <<8, 28, 56, 72>>,
       <<4, 13, 30, 51, 60>>,
       <<2, 7, 17, 31, 45, 52>>,
       <<1, 5, 10, 19, 30, 41, 44>>,
       <<1, 3, 6, 12, 20, 30, 36, 40>>,
       <<1, 2, 4, 8, 13, 21, 28, 33, 36>>,
       <<1, 1, 3, 5, 10, 15, 20, 27, 30, 32>>,
       <<0, 2, 2, 4, 6, 11, 15, 20, 25, 28, 30>>,
       <<0, 1, 2, 3, 5, 8, 11, 15, 20, 24, 26, 26>>,
       <<0, 1, 1, 3, 3, 6, 9, 12, 15, 19, 22, 25, 24>>,
       <<0, 1, 1, 2, 3, 4, 7, 9, 12, 15, 19, 21, 22, 24>>,
       <<0, 1, 1, 1, 2, 4, 5, 7, 10, 12, 15, 18, 20, 21, 22>>,
       <<0, 1, 0, 1, 2, 3, 4, 6, 7, 10, 13, 15, 17, 19, 20, 20>>,
       <<0, 1, 0, 1, 2, 2, 3, 5, 6, 8, 10, 12, 15, 16, 18, 19, 20>>,
       <<0, 0, 1, 1, 1, 2, 3, 3, 5, 7, 8, 10, 13, 14, 16, 17, 18, 18>> >>

\* weight t (1..ksize) of the kernel of odd side ksize
GaussWeight(ksize, t) == GaussHalf[(ksize + 1) \div 2][Min(t, ksize + 1 - t)]

\* cv::borderInterpolate, BORDER_REFLECT_101, on a 0-based index p of an axis
\* of length n
RECURSIVE Reflect101(_, _)
Reflect101(p, n) ==
    IF n = 1 THEN 0
    ELSE IF p < 0 THEN Reflect101(-p, n)
    ELSE IF p >= n THEN Reflect101(2 * n - 2 - p, n)
    ELSE p

\* f[1] + ... + f[n]
RECURSIVE SumTo(_, _)
SumTo(f, n) == IF n = 0 THEN 0 ELSE f[n] + SumTo(f, n - 1)

\* cv2.GaussianBlur(buf, (ksize, ksize), 0) on uint8 data: a horizontal and
\* a vertical pass in fixed point, rounded once at the end
GaussianBlur(buf, ksize) ==
    LET h == Len(buf)
        w == Len(buf[1])
        half == ksize \div 2
        row == [i \in 1..h |-> [j \in 1..w |-> [c \in DOMAIN buf[i][j] |->
                  SumTo([t \in 1..ksize |->
                           GaussWeight(ksize, t)
                           * buf[i][Reflect101(j - 1 + t - 1 - half, w) + 1][c]],
                        ksize)]]]
    IN  [i \in 1..h |-> [j \in 1..w |-> [c \in DOMAIN buf[i][j] |->
            (SumTo([t \in 1..ksize |->
                      GaussWeight(ksize, t)
                      * row[Reflect101(i - 1 + t - 1 - half, h) + 1][j][c]],
                   ksize) + 32768) \div 65536]]]

(***************************************************************************)
(* adjust_rgb_channels, lines 46-65.                                       *)
(***************************************************************************)
\* lines 50-63 on one plane sample with its delta
ChannelSample(x, delta) ==
    IF delta > 0 THEN cvAdd(x, delta)
    ELSE IF delta < 0 THEN cvSubtract(x, -delta)
    ELSE x

\* variant: the planes merged as (r, g, b)
ChannelsPixelMergedRGB(p, red, green, blue) ==
    <<ChannelSample(p[3], red), ChannelSample(p[2], green), ChannelSample(p[1], blue)>>
\* split into b, g, r (line 48), adjust, merge as (b, g, r) (line 65)
ChannelsPixel(p, red, green, blue) ==
    <<ChannelSample(p[1], blue), ChannelSample(p[2], green), ChannelSample(p[3], red)>>

ChannelsBuffer(buf, red, green, blue) ==
    [i \in DOMAIN buf |-> [j \in DOMAIN buf[i] |-> ChannelsPixel(buf[i][j], red, green, blue)]]

(***************************************************************************)
(* The colour effects, lines 67-94, on buffer values.                      *)
(***************************************************************************)
\* cv2.cvtColor(COLOR_BGR2GRAY): fixed-point luma, one sample per pixel
GrayscaleBuffer(buf) ==
    [i \in DOMAIN buf |-> [j \in DOMAIN buf[i] |->
        <<(buf[i][j][1] * 1868 + buf[i][j][2] * 9617 + buf[i][j][3] * 4899 + 8192) \div 16384>>]]

\* lines 73-75: the 3x3 array passed to filter2D, in thousandths
SepiaKernel == << <<272, 534, 131>>, <<349, 686, 168>>, <<393, 769, 189>> >>

\* cv2.filter2D(image, -1, kernel): every channel plane is correlated with
\* the 3x3 kernel over the pixel's 3x3 neighbourhood (anchor at the centre,
\* reflect-101 border), rounded and saturated
SepiaBuffer(buf) ==
    LET h == Len(buf)
        w == Len(buf[1])
    IN  [i \in 1..h |-> [j \in 1..w |-> [c \in DOMAIN buf[i][j] |->
            Saturate(RoundDiv(
                SumTo([a \in 1..3 |->
                         SumTo([b \in 1..3 |->
                                  SepiaKernel[a][b]
                                  * buf[Reflect101(i - 1 + a - 2, h) + 1]
                                       [Reflect101(j - 1 + b - 2, w) + 1][c]],
                               3)],
                      3),
                1000))]]]

\* cv2.bitwise_not on uint8
NegativeBuffer(buf) ==
    [i \in DOMAIN buf |-> [j \in DOMAIN buf[i] |->
        [c \in DOMAIN buf[i][j] |-> 255 - buf[i][j][c]]]]

\* variant: NumPy's wrapping r + 10 and b - 10 in place of cv2.add and cv2.subtract
WarmPixelWrapped(p) == <<Wrap8(p[1] - 10), p[2], Wrap8(p[3] + 10)>>
\* lines 84-87
WarmPixel(p) == <<cvSubtract(p[1], 10), p[2], cvAdd(p[3], 10)>>
WarmBuffer(buf) ==
    [i \in DOMAIN buf |-> [j \in DOMAIN buf[i] |-> WarmPixel(buf[i][j])]]

\* lines 91-94
CoolPixel(p) == <<cvAdd(p[1], 10), p[2], cvSubtract(p[3], 10)>>
CoolBuffer(buf) ==
    [i \in DOMAIN buf |-> [j \in DOMAIN buf[i] |-> CoolPixel(buf[i][j])]]

(***************************************************************************)
(* The transforms as Python functions on array references.  A call returns *)
(* the heap after it, the reference it returns (0: none) and the exception *)
(* it raised ("none": it returned).                                        *)
(***************************************************************************)
Ret(hp, ref) == [heap |-> hp, ref |-> ref, err |-> "none"]
Raise(hp, e) == [heap |-> hp, ref |-> 0, err |-> e]
\* a call that builds a new array and returns it
Alloc(hp, buf) == Ret(Append(hp, buf), Len(hp) + 1)

\* variant: the adjusted samples stored into the argument array itself
adjust_brightness_inplace(hp, img, brightness) ==
    IF brightness # 0
    THEN Ret([hp EXCEPT ![img] = BrightnessBuffer(hp[img], brightness)], img)
    ELSE Ret(hp, img)
\* lines 9-27: cvtColor, split and merge all build new arrays; the masked
\* stores of lines 17-23 write to the plane split returned, never to image
adjust_brightness(hp, img, brightness) ==
    IF brightness # 0
    THEN Alloc(hp, BrightnessBuffer(hp[img], brightness))
    ELSE Ret(hp, img)

\* lines 29-37: line 32 divides by 127*(131-contrast)
adjust_contrast(hp, img, contrast) ==
    IF contrast # 0
    THEN IF ContrastDivisor(contrast) = 0
         THEN Raise(hp, "ZeroDivisionError")
         ELSE Alloc(hp, ContrastBuffer(hp[img], contrast))
    ELSE Ret(hp, img)

\* lines 39-44
apply_blur(hp, img, blur) ==
    IF blur > 0
    THEN Alloc(hp, GaussianBlur(hp[img], KernelSize(blur)))
    ELSE Ret(hp, img)

\* lines 46-65
adjust_rgb_channels(hp, img, red, green, blue) ==
    Alloc(hp, ChannelsBuffer(hp[img], red, green, blue))

\* lines 67-94
apply_grayscale(hp, img) == Alloc(hp, GrayscaleBuffer(hp[img]))
apply_sepia(hp, img) == Alloc(hp, SepiaBuffer(hp[img]))
apply_negative(hp, img) == Alloc(hp, NegativeBuffer(hp[img]))
apply_warm(hp, img) == Alloc(hp, WarmBuffer(hp[img]))
apply_cool(hp, img) == Alloc(hp, CoolBuffer(hp[img]))

(***************************************************************************)
(* main, lines 96-171.                                                     *)
(***************************************************************************)
\* the widgets of lines 117-131
Sliders == {"brightness", "contrast", "blur", "red", "green", "blue"}
Flags == {"grayscale", "sepia", "negative", "warm", "cool"}

\* the widgets' default values
Neutral == [k \in Sliders \cup Flags |-> IF k \in Sliders THEN 0 ELSE FALSE]

\* variant: the chain with the sepia test ahead of the grayscale test
EffectBranchSepiaFirst(p) ==
    IF p.sepia THEN "sepia"
    ELSE IF p.grayscale THEN "grayscale"
    ELSE IF p.negative THEN "negative"
    ELSE IF p.warm THEN "warm"
    ELSE IF p.cool THEN "cool"
    ELSE "none"
\* the branch the if/elif chain of lines 140-149 takes
EffectBranch(p) ==
    IF p.grayscale THEN "grayscale"
    ELSE IF p.sepia THEN "sepia"
    ELSE IF p.negative THEN "negative"
    ELSE IF p.warm THEN "warm"
    ELSE IF p.cool THEN "cool"
    ELSE "none"

\* the call of the branch taken; no branch leaves adjusted as it is
ApplyEffect(hp, img, branch) ==
    CASE branch = "grayscale" -> apply_grayscale(hp, img)
      [] branch = "sepia"     -> apply_sepia(hp, img)
      [] branch = "negative"  -> apply_negative(hp, img)
      [] branch = "warm"      -> apply_warm(hp, img)
      [] branch = "cool"      -> apply_cool(hp, img)
      [] OTHER                -> Ret(hp, img)

\* variant: lines 135 and 136 exchanged
NextStageBlurFirst(stage) ==
    CASE stage = "brightness" -> "blur"
      [] stage = "blur"       -> "contrast"
      [] stage = "contrast"   -> "rgb"
      [] stage = "rgb"        -> "effect"
      [] OTHER                -> "display"
\* the statement after each of lines 134-149, in program order
NextStage(stage) ==
    CASE stage = "brightness" -> "contrast"
      [] stage = "contrast"   -> "blur"
      [] stage = "blur"       -> "rgb"
      [] stage = "rgb"        -> "effect"
      [] OTHER                -> "display"

(***************************************************************************)
(* Inputs.                                                                 *)
(***************************************************************************)
\* decoded uploads: the 2x2 uniform mid-gray image, a coloured one with
\* samples near both ends of the range, and a single lit pixel on black
Gray127 == [i \in 1..2 |-> [j \in 1..2 |-> <<127, 127, 127>>]]
Ramp ==
    [i \in 1..ImgH |-> [j \in 1..ImgW |->
        <<(40 * i + 90 * j) % 256, (200 + 25 * i * j) % 256, (250 - 3 * i + 2 * j) % 256>>]]
Spot ==
    [i \in 1..ImgH |-> [j \in 1..ImgW |->
        IF i = 1 /\ j = 1 THEN <<10, 20, 30>> ELSE <<0, 0, 0>>]]
TestImages == {Gray127, Ramp, Spot}

\* slider positions a script run may read (lines 117-124)
BrightnessChoices == {-100, 0, 50}
ContrastChoices == {-50, 0, 100}
BlurChoices == {0, 4, 5}
RedChoices == {0, 100}
GreenChoices == {-100, 0}
BlueChoices == {0, 10}

\* the ranges of the sliders (lines 117-124)
SliderRange == -100..100
BlurRange == 0..30

\* arguments of a direct call, beyond the sliders' ranges
ExtSliderRange == -(100 + SliderExt)..(100 + SliderExt)
ExtBlurRange == -BlurExt..(30 + BlurExt)

\* one-pixel buffers: every gray level, and some colours
SamplePixels ==
    {<<x, x, x>> : x \in 0..255}
    \cup {<<0, 0, 255>>, <<255, 0, 0>>, <<0, 255, 0>>, <<30, 200, 120>>, <<250, 5, 100>>}
OnePixel(p) == << <<p>> >>
UnitBuffers == TestImages \cup {OnePixel(p) : p \in SamplePixels}

\* one-pixel buffers for the tone effects: every red with blues around the
\* ends of the range, and every blue with reds around the ends
TonePixels ==
    {<<b, 77, r>> : b \in {0, 9, 10, 11, 128, 255}, r \in 0..255}
    \cup {<<b, 77, r>> : b \in 0..255, r \in {0, 128, 244, 245, 246, 255}}

(***************************************************************************)
(* The application: one script run per interaction.                        *)
(***************************************************************************)
Init ==
    /\ uploaded = <<>>
    /\ heap = <<>>
    /\ image = 0
    /\ adjusted = 0
    /\ params = Neutral
    /\ pc = "idle"
    /\ log = <<>>
    /\ error = "none"

\* lines 103-106, then the widgets read at 117-131: a script run decodes the
\* upload into a new array; no array of the previous run is kept
Rerun(file, widgets) ==
    /\ pc \in {"idle", "failed"}
    /\ uploaded' = file
    /\ heap' = <<file>>
    /\ image' = 1
    /\ adjusted' = 0
    /\ params' = widgets
    /\ pc' = "brightness"
    /\ log' = <<>>
    /\ error' = "none"

\* line 101: the user picks a file, and the script reruns with the widgets
\* where they are
Upload == \E img \in TestImages : Rerun(img, params)

\* the positions widget k can be moved to
Choices(k) ==
    CASE k = "brightness" -> BrightnessChoices
      [] k = "contrast"   -> ContrastChoices
      [] k = "blur"       -> BlurChoices
      [] k = "red"        -> RedChoices
      [] k = "green"      -> GreenChoices
      [] k = "blue"       -> BlueChoices
      [] OTHER            -> BOOLEAN

\* lines 117-131: the user moves one widget, and the script reruns on the
\* same upload; the other widgets keep their positions
ReadWidgets ==
    /\ uploaded # <<>>
    /\ \E k \in Sliders \cup Flags : \E x \in Choices(k) :
          Rerun(uploaded, [params EXCEPT ![k] = x])

\* what a call leaves behind: the heap, the returned reference, a log entry
\* naming the function called and its argument and result
Called(stage, fn, input, r) ==
    /\ heap' = r.heap
    /\ adjusted' = IF r.err = "none" THEN r.ref ELSE adjusted
    /\ error' = r.err
    /\ log' = Append(log, [stage |-> stage, fn |-> fn, in |-> input, out |-> r.ref])

\* a statement of lines 134-149: on an exception the run ends
Stage(stage, fn, input, r) ==
    /\ pc = stage
    /\ Called(stage, fn, input, r)
    /\ pc' = IF r.err = "none" THEN NextStage(stage) ELSE "failed"
    /\ UNCHANGED <<uploaded, image, params>>

\* line 134
StageBrightness ==
    Stage("brightness", "adjust_brightness", image,
          adjust_brightness(heap, image, params.brightness))
\* line 135
StageContrast ==
    Stage("contrast", "adjust_contrast", adjusted,
          adjust_contrast(heap, adjusted, params.contrast))
\* line 136
StageBlur ==
    Stage("blur", "apply_blur", adjusted, apply_blur(heap, adjusted, params.blur))
\* line 137
StageChannels ==
    Stage("rgb", "adjust_rgb_channels", adjusted,
          adjust_rgb_channels(heap, adjusted, params.red, params.green, params.blue))
\* lines 139-149
StageEffect ==
    Stage("effect", EffectBranch(params), adjusted,
          ApplyEffect(heap, adjusted, EffectBranch(params)))

\* lines 151-171: the result is shown and offered for download; the script
\* ends and waits for the next interaction
Display ==
    /\ pc = "display"
    /\ pc' = "idle"
    /\ UNCHANGED <<uploaded, heap, image, adjusted, params, log, error>>

Next ==
    \/ Upload
    \/ ReadWidgets
    \/ StageBrightness
    \/ StageContrast
    \/ StageBlur
    \/ StageChannels
    \/ StageEffect
    \/ Display

Spec == Init /\ [][Next]_vars

(***************************************************************************)
(* Direct calls of one transform on one buffer, with arguments inside and  *)
(* outside the sliders' ranges.                                            *)
(***************************************************************************)
UnitInit ==
    /\ uploaded = <<>>
    /\ \E buf \in UnitBuffers : heap = <<buf>>
    /\ image = 1
    /\ adjusted = 0
    /\ params = Neutral
    /\ pc = "ready"
    /\ log = <<>>
    /\ error = "none"

Call(stage, fn, r, p) ==
    /\ pc = "ready"
    /\ Called(stage, fn, image, r)
    /\ params' = p
    /\ pc' = IF r.err = "none" THEN "returned" ELSE "raised"
    /\ UNCHANGED <<uploaded, image>>

CallBrightness ==
    \E a \in ExtSliderRange :
        Call("brightness", "adjust_brightness", adjust_brightness(heap, image, a),
             [Neutral EXCEPT !.brightness = a])

CallContrast ==
    \E a \in ExtSliderRange :
        Call("contrast", "adjust_contrast", adjust_contrast(heap, image, a),
             [Neutral EXCEPT !.contrast = a])

CallBlur ==
    \E a \in ExtBlurRange :
        Call("blur", "apply_blur", apply_blur(heap, image, a),
             [Neutral EXCEPT !.blur = a])

CallChannels ==
    \E a \in ExtSliderRange, ch \in {"red", "green", "blue"} :
        LET p == [Neutral EXCEPT ![ch] = a]
        IN  Call("rgb", "adjust_rgb_channels",
                 adjust_rgb_channels(heap, image, p.red, p.green, p.blue), p)

CallEffect ==
    \E e \in Flags :
        Call("effect", e, ApplyEffect(heap, image, e), [Neutral EXCEPT ![e] = TRUE])

UnitNext ==
    \/ CallBrightness
    \/ CallContrast
    \/ CallBlur
    \/ CallChannels
    \/ CallEffect

SpecUnit == UnitInit /\ [][UnitNext]_vars

(***************************************************************************)
(* The tone effects chained on one pixel.                                  *)
(***************************************************************************)
ToneInit ==
    /\ uploaded = <<>>
    /\ \E p \in TonePixels : heap = <<OnePixel(p)>>
    /\ image = 1
    /\ adjusted = 1
    /\ params = Neutral
    /\ pc = "ready"
    /\ log = <<>>
    /\ error = "none"

ToneCall(e) ==
    /\ Len(log) < MaxCalls
    /\ Called("effect", e, adjusted, ApplyEffect(heap, adjusted, e))
    /\ params' = [params EXCEPT ![e] = TRUE]
    /\ UNCHANGED <<uploaded, image, pc>>

CallWarm == ToneCall("warm")
CallCool == ToneCall("cool")

ToneNext ==
    \/ CallWarm
    \/ CallCool

SpecTone == ToneInit /\ [][ToneNext]_vars

(***************************************************************************)
(* Properties.                                                             *)
(***************************************************************************)
\* the samples of a buffer
Pixels(buf) == {buf[i][j] : i \in DOMAIN buf, j \in DOMAIN buf[1]}
SameShape(a, b) == Len(a) = Len(b) /\ Len(a[1]) = Len(b[1])
Calls == 1..Len(log)

\* the effects in the priority order of the specification
Priority == <<"grayscale", "sepia", "negative", "warm", "cool">>
FirstTrue(p) ==
    IF \E i \in 1..5 : p[Priority[i]]
    THEN Priority[CHOOSE i \in 1..5 :
                     p[Priority[i]] /\ \A j \in 1..(i - 1) : ~p[Priority[j]]]
    ELSE "none"
\* what one effect alone makes of a buffer
EffectValue(e, buf) ==
    CASE e = "grayscale" -> GrayscaleBuffer(buf)
      [] e = "sepia"     -> SepiaBuffer(buf)
      [] e = "negative"  -> NegativeBuffer(buf)
      [] e = "warm"      -> WarmBuffer(buf)
      [] e = "cool"      -> CoolBuffer(buf)
      [] OTHER           -> buf

\* C1: for every combination of the five flags a run applies at most one
\* effect, the first true flag in the order grayscale > sepia > negative >
\* warm > cool, and none when no flag is true: the effect stage calls that
\* effect's function once, and its result is that effect alone applied to the
\* stage's input.
EffectPriority ==
    /\ Cardinality({k \in Calls : log[k].stage = "effect"}) <= 1
    /\ \A k \in Calls :
          log[k].stage = "effect" =>
              /\ log[k].fn = FirstTrue(params)
              /\ heap[log[k].out] = EffectValue(FirstTrue(params), heap[log[k].in])
              /\ FirstTrue(params) = "none" => log[k].out = log[k].in

\* C1's case: grayscale and sepia both set, and a buffer on which the two
\* effects differ; the run has applied grayscale
EffectPriorityWitness ==
    /\ pc = "display"
    /\ params.grayscale /\ params.sepia /\ params.cool
    /\ log[5].fn = "grayscale"
    /\ heap[adjusted] = GrayscaleBuffer(heap[log[5].in])
    /\ heap[adjusted] # SepiaBuffer(heap[log[5].in])

StageOrder == <<"brightness", "contrast", "blur", "rgb", "effect">>

\* C2: in every run the stages execute in the order brightness, contrast,
\* blur, rgb, effect, each on the previous stage's output (the first on the
\* decoded upload), and a run that reaches the display has executed all five.
StagesInOrder ==
    /\ Len(log) <= 5
    /\ \A k \in Calls :
          /\ log[k].stage = StageOrder[k]
          /\ log[k].in = IF k = 1 THEN image ELSE log[k - 1].out
    /\ pc \in {"brightness", "contrast", "blur", "rgb", "effect"} =>
          pc = StageOrder[Len(log) + 1]
    /\ pc = "display" => Len(log) = 5 /\ adjusted = log[5].out

\* C2's case: a finished run in which every stage changed the buffer
StagesInOrderWitness ==
    /\ pc = "display"
    /\ params.brightness # 0 /\ params.contrast # 0 /\ params.blur # 0
    /\ params.red # 0 /\ params.negative
    /\ \A k \in 1..5 : log[k].out = k + 1 /\ heap[log[k].out] # heap[log[k].in]

\* the stages as functions of buffer values
PipelineValue(buf, p) ==
    LET a == IF p.brightness # 0 THEN BrightnessBuffer(buf, p.brightness) ELSE buf
        b == IF p.contrast # 0 THEN ContrastBuffer(a, p.contrast) ELSE a
        c == IF p.blur > 0 THEN GaussianBlur(b, p.blur + 1 - (p.blur % 2)) ELSE b
        d == ChannelsBuffer(c, p.red, p.green, p.blue)
    IN  EffectValue(FirstTrue(p), d)

\* C3: at every point of every run the array decoded from the upload holds
\* the uploaded samples, whatever the widgets and whatever earlier runs did,
\* and the displayed result is the pipeline's value on the upload and this
\* run's widgets.
OriginalUntouched ==
    /\ heap # <<>> => heap[image] = uploaded
    /\ pc = "display" => heap[adjusted] = PipelineValue(uploaded, params)

\* C3's case: a finished run, not the first of the session, whose first
\* three stages returned the upload's own array and whose later stages
\* changed the samples
OriginalUntouchedWitness ==
    /\ pc = "display"
    /\ uploaded = Ramp
    /\ log[1].out = image /\ log[2].out = image /\ log[3].out = image
    /\ params.red = 100 /\ params.warm
    /\ heap[adjusted] # uploaded
    /\ heap[image] = Ramp

\* the per-pixel colour mix of the specification, rows in R, G, B order, on a
\* <<b, g, r>> pixel
SepiaMix(p) ==
    <<Saturate(RoundDiv(272 * p[3] + 534 * p[2] + 131 * p[1], 1000)),
      Saturate(RoundDiv(349 * p[3] + 686 * p[2] + 168 * p[1], 1000)),
      Saturate(RoundDiv(393 * p[3] + 769 * p[2] + 189 * p[1], 1000))>>

\* C4: apply_sepia computes every output pixel from the three samples of the
\* input pixel at the same position, as the saturated linear mix
\* outR = 0.393R+0.769G+0.189B, outG = 0.349R+0.686G+0.168B,
\* outB = 0.272R+0.534G+0.131B.
SepiaIsPixelMix ==
    \A k \in Calls :
        log[k].fn = "sepia" =>
            heap[log[k].out] =
                [i \in DOMAIN heap[log[k].in] |->
                    [j \in DOMAIN heap[log[k].in][i] |-> SepiaMix(heap[log[k].in][i][j])]]

\* the declared ranges of the parameters of a call
InRange(p) ==
    /\ p.brightness \in SliderRange /\ p.contrast \in SliderRange
    /\ p.red \in SliderRange /\ p.green \in SliderRange /\ p.blue \in SliderRange
    /\ p.blur \in BlurRange

\* brightness on one pixel with the value sample clamped, not wrapped
ClampedBrightness(p, amount) ==
    LET hsv == BGR2HSV(p)
    IN  HSV2BGR(<<hsv[1], hsv[2], Saturate(hsv[3] + amount)>>)

\* C5: for every transform, every input sample and every parameter within
\* its slider range, each output sample lies in 0..255 and is the clamped
\* arithmetic result: brightness makes the value sample min(255, v + amount)
\* or max(0, v - |amount|), channel deltas and the warm and cool shifts are
\* saturating additions and subtractions.
SaturationLaw ==
    \A k \in Calls :
        (InRange(params) /\ log[k].out # 0) =>
            LET src == heap[log[k].in]
                dst == heap[log[k].out]
            IN  /\ \A px \in Pixels(dst) : \A c \in DOMAIN px : px[c] \in 0..255
                /\ (log[k].fn = "adjust_brightness" /\ params.brightness # 0) =>
                      /\ dst = [i \in DOMAIN src |-> [j \in DOMAIN src[i] |->
                                   ClampedBrightness(src[i][j], params.brightness)]]
                      /\ \A i \in DOMAIN src : \A j \in DOMAIN src[i] :
                            BGR2HSV(dst[i][j])[3] =
                                Saturate(BGR2HSV(src[i][j])[3] + params.brightness)
                /\ log[k].fn = "adjust_rgb_channels" =>
                      dst = [i \in DOMAIN src |-> [j \in DOMAIN src[i] |->
                                <<Saturate(src[i][j][1] + params.blue),
                                  Saturate(src[i][j][2] + params.green),
                                  Saturate(src[i][j][3] + params.red)>>]]
                /\ log[k].fn = "warm" =>
                      dst = [i \in DOMAIN src |-> [j \in DOMAIN src[i] |->
                                <<Saturate(src[i][j][1] - 10), src[i][j][2],
                                  Saturate(src[i][j][3] + 10)>>]]
                /\ log[k].fn = "cool" =>
                      dst = [i \in DOMAIN src |-> [j \in DOMAIN src[i] |->
                                <<Saturate(src[i][j][1] + 10), src[i][j][2],
                                  Saturate(src[i][j][3] - 10)>>]]

\* C5's case: brightness 100 on a buffer of value 200 has given value 255
SaturationLawWitness ==
    /\ pc = "returned"
    /\ log[1].fn = "adjust_brightness"
    /\ params.brightness = 100
    /\ heap[image] = OnePixel(<<200, 200, 200>>)
    /\ heap[adjusted] = OnePixel(<<255, 255, 255>>)

\* C6: adjust_brightness(buf, 0), adjust_contrast(buf, 0), apply_blur(buf, 0)
\* and adjust_rgb_channels(buf, 0, 0, 0) return a buffer equal sample for
\* sample to buf, and a run with all six sliders at 0 and no effect displays
\* a buffer equal to the upload.
IdentityLaws ==
    /\ \A k \in Calls :
          LET neutral ==
                  \/ log[k].fn = "adjust_brightness" /\ params.brightness = 0
                  \/ log[k].fn = "adjust_contrast" /\ params.contrast = 0
                  \/ log[k].fn = "apply_blur" /\ params.blur = 0
                  \/ /\ log[k].fn = "adjust_rgb_channels"
                     /\ params.red = 0 /\ params.green = 0 /\ params.blue = 0
          IN  neutral => log[k].out # 0 /\ heap[log[k].out] = heap[log[k].in]
    /\ (pc = "display" /\ params = Neutral) => heap[adjusted] = uploaded

\* C6's case: a finished run on a coloured upload with every widget neutral
IdentityLawsWitness ==
    /\ pc = "display"
    /\ params = Neutral
    /\ uploaded = Ramp
    /\ heap[adjusted] = Ramp
    /\ adjusted # image

\* the run of C7: the 2x2 mid-gray upload, brightness 50, all else neutral
MidGrayRun ==
    /\ pc = "display"
    /\ uploaded = Gray127
    /\ params = [Neutral EXCEPT !.brightness = 50]

\* C7 as stated: that run raises every pixel's value by 50 with hue and
\* saturation unchanged, and every displayed pixel is gray with each channel
\* within 2 of 168.
MidGrayNear168 ==
    MidGrayRun =>
        \A px \in Pixels(heap[adjusted]) :
            /\ BGR2HSV(px) = <<0, 0, 127 + 50>>
            /\ px[1] = px[2] /\ px[2] = px[3]
            /\ Abs(px[1] - 168) <= 2

\* C7 amended: that run raises every pixel's value by 50 with hue and
\* saturation unchanged, and every displayed pixel is the gray (177,177,177).
MidGrayBecomes177 ==
    MidGrayRun =>
        /\ SameShape(heap[adjusted], uploaded)
        /\ \A px \in Pixels(uploaded) : BGR2HSV(px) = <<0, 0, 127>>
        /\ \A px \in Pixels(heap[adjusted]) :
              /\ BGR2HSV(px) = <<0, 0, 127 + 50>>
              /\ px = <<177, 177, 177>>

\* C7's case: that run has been displayed
MidGrayWitness == MidGrayRun /\ log[1].out # image /\ Len(heap[adjusted]) = 2

\* a parameter of the call made lies outside its declared range
OutOfRange(k) ==
    \/ log[k].fn = "adjust_brightness" /\ params.brightness \notin SliderRange
    \/ log[k].fn = "adjust_contrast" /\ params.contrast \notin SliderRange
    \/ log[k].fn = "apply_blur" /\ params.blur \notin BlurRange
    \/ /\ log[k].fn = "adjust_rgb_channels"
       /\ ~(params.red \in SliderRange /\ params.green \in SliderRange
            /\ params.blue \in SliderRange)

\* C8 as stated: a call with a parameter outside its declared range ends in
\* InvalidParameter and produces no buffer; a call with its parameters inside
\* the ranges cannot fail.
OutOfRangeRejected ==
    \A k \in Calls :
        IF OutOfRange(k)
        THEN error = "InvalidParameter" /\ log[k].out = 0
        ELSE error = "none" /\ log[k].out # 0

\* C8 amended: no transform checks its parameters.  A call fails only in
\* adjust_contrast with contrast = 131, with ZeroDivisionError and no buffer;
\* every other call, in range or not (brightness, contrast and channel deltas
\* within the harness's extended range, blur within its extended range),
\* returns a buffer of the input's shape, and a negative blur returns its
\* input; with every parameter in range no call fails and the contrast
\* divisor is not zero.
OnlyContrast131Fails ==
    \A k \in Calls :
        /\ error \in {"none", "ZeroDivisionError"}
        /\ error = "ZeroDivisionError" <=>
              (log[k].fn = "adjust_contrast" /\ params.contrast = 131)
        /\ error = "ZeroDivisionError" => log[k].out = 0 /\ pc \in {"raised", "failed"}
        /\ error = "none" =>
              /\ log[k].out # 0
              /\ SameShape(heap[log[k].out], heap[log[k].in])
        /\ (log[k].fn = "apply_blur" /\ params.blur < 0) => log[k].out = log[k].in
        /\ ~OutOfRange(k) => error = "none" /\ ContrastDivisor(params.contrast) # 0

\* C8's case: adjust_contrast called with 131 has raised
OnlyContrast131FailsWitness ==
    /\ pc = "raised"
    /\ log[1].fn = "adjust_contrast"
    /\ params.contrast = 131
    /\ error = "ZeroDivisionError"
    /\ adjusted = 0

\* C9: for every radius in 1..30 the kernel side used is odd, the radius
\* itself when odd and radius + 1 when even, so apply_blur with an even
\* radius r gives what a Gaussian blur of side r + 1 gives; radius 0 uses no
\* kernel and returns its input.
BlurPromotion ==
    \A k \in Calls :
        (log[k].fn = "apply_blur" /\ params.blur \in BlurRange) =>
            LET r == params.blur
                side == IF r % 2 = 0 THEN r + 1 ELSE r
            IN  IF r = 0
                THEN log[k].out = log[k].in
                ELSE /\ side % 2 = 1
                     /\ heap[log[k].out] = GaussianBlur(heap[log[k].in], side)
                     /\ r % 2 = 0 =>
                           LET odd == apply_blur(<<heap[log[k].in]>>, 1, r + 1)
                           IN  heap[log[k].out] = odd.heap[odd.ref]

\* C9's case: radius 4 on a coloured buffer has given the blur of side 5,
\* which differs from the blur of side 3
BlurPromotionWitness ==
    /\ pc = "returned"
    /\ log[1].fn = "apply_blur"
    /\ params.blur = 4
    /\ heap[image] = Ramp
    /\ heap[adjusted] = GaussianBlur(Ramp, 5)
    /\ heap[adjusted] # GaussianBlur(Ramp, 3)

\* C10: apply_warm adds 10 to red and subtracts 10 from blue, apply_cool does
\* the reverse, both saturating and leaving green unchanged; apply_cool of
\* apply_warm of a pixel equals the pixel exactly when red <= 245 and
\* blue >= 10.
WarmThenCool ==
    /\ \A k \in Calls :
          LET src == heap[log[k].in][1][1]
              dst == heap[log[k].out][1][1]
          IN  /\ log[k].fn = "warm" =>
                    dst = <<Max(0, src[1] - 10), src[2], Min(255, src[3] + 10)>>
              /\ log[k].fn = "cool" =>
                    dst = <<Min(255, src[1] + 10), src[2], Max(0, src[3] - 10)>>
    /\ (Len(log) >= 2 /\ log[1].fn = "warm" /\ log[2].fn = "cool" /\ log[2].in = log[1].out) =>
          LET src == heap[log[1].in][1][1]
          IN  (heap[log[2].out] = heap[log[1].in]) <=> (src[3] <= 245 /\ src[1] >= 10)

\* C10's case: warm then cool on a pixel with red above 245 has not given
\* the pixel back
WarmThenCoolWitness ==
    /\ Len(log) = 2
    /\ log[1].fn = "warm" /\ log[2].fn = "cool"
    /\ heap[1] = OnePixel(<<128, 77, 250>>)
    /\ heap[adjusted] = OnePixel(<<128, 77, 245>>)

====
